---- MODULE Spec2Model ----
(***************************************************************************)
(* Model of index.js: the backup run over the articles of a dev.to export. *)
(*                                                                         *)
(* Text is a sequence of symbols.  A symbol is one character, except that  *)
(* an origin ("http://x/") and the reserved file names are one symbol      *)
(* each: the inputs of the model carry them whole.                         *)
(***************************************************************************)
EXTENDS Integers, Sequences, FiniteSets, TLC

(***************************************************************************)
(* Bounds of the model.                                                    *)
(***************************************************************************)
MaxArticles == 2
MaxRuns == 2

(***************************************************************************)
(* Text: URLs, file names, markdown.                                       *)
(***************************************************************************)
Origins == {"http://x/", "http://y/"}

Empty == << >>

\* if (article.cover_image) ..., .filter(Boolean), a || b: "" is falsy.
Truthy(s) == s # Empty

\* new URL(url): a string of the model parses iff it starts with an origin;
\* anything else is a relative reference without a base, and throws.
ValidUrl(s) == Len(s) >= 1 /\ s[1] \in Origins

\* path.basename(urlObj.pathname): what follows the last "/" of the path.
\* Every "/" of a model URL is the one that ends an origin.
Basename(s) ==
    LET last == CHOOSE k \in 1..Len(s) :
                    /\ s[k] \in Origins
                    /\ \A m \in (k+1)..Len(s) : s[m] \notin Origins
    IN SubSeq(s, last + 1, Len(s))

\* The least index k >= p with s[k] = c, or 0 when there is none.
IndexFrom(s, p, c) ==
    IF \E k \in p..Len(s) : s[k] = c
    THEN CHOOSE k \in p..Len(s) : s[k] = c /\ \A m \in p..(k-1) : s[m] # c
    ELSE 0

\* One match of /!\[[^\]]*\]\(([^)]+)\)/ starting exactly at p: the alt text
\* runs to the first "]", which "(" must follow, and the URL is the non-empty
\* run up to the first ")".  Neither class can give a character back, so the
\* match at p is unique.  to = 0 when there is no match at p.
NoMatch == [to |-> 0, alt |-> 0, url |-> 0]

MatchAt(s, p) ==
    IF p + 1 > Len(s) \/ s[p] # "!" \/ s[p+1] # "["
    THEN NoMatch
    ELSE LET rb == IndexFrom(s, p + 2, "]")
         IN IF rb = 0 \/ rb + 1 > Len(s) \/ s[rb+1] # "("
            THEN NoMatch
            ELSE LET rp == IndexFrom(s, rb + 2, ")")
                 IN IF rp = 0 \/ rp = rb + 2
                    THEN NoMatch
                    ELSE [to |-> rp, alt |-> rb, url |-> rb + 2]

\* regex.exec from lastIndex p: the leftmost match at or after p.
NextMatch(s, p) ==
    IF \E k \in p..Len(s) : MatchAt(s, k).to # 0
    THEN LET k == CHOOSE k \in p..Len(s) :
                      /\ MatchAt(s, k).to # 0
                      /\ \A m \in p..(k-1) : MatchAt(s, m).to = 0
         IN [from |-> k] @@ MatchAt(s, k)
    ELSE [from |-> 0] @@ NoMatch

\* The image tokens of s from p on, left to right, as
\* [from, to, alt, url] index records.
RECURSIVE Tokens(_, _)
Tokens(s, p) ==
    LET m == NextMatch(s, p)
    IN IF m.from = 0 THEN << >> ELSE <<m>> \o Tokens(s, m.to + 1)

TokenUrl(s, m) == SubSeq(s, m.url, m.to - 1)
TokenAlt(s, m) == SubSeq(s, m.from + 2, m.alt - 1)
TokenText(s, m) == SubSeq(s, m.from, m.to)

\* extractImageUrls(article)
extractImageUrls(article) ==
    LET body == article.body_markdown
        toks == Tokens(body, 1)
        all  == (IF Truthy(article.cover_image) THEN <<article.cover_image>> ELSE << >>)
                \o (IF Truthy(article.social_image) THEN <<article.social_image>> ELSE << >>)
                \o (IF Truthy(body) THEN [k \in 1..Len(toks) |-> TokenUrl(body, toks[k])]
                                    ELSE << >>)
    IN SelectSeq(all, Truthy)

\* urlToLocal[url] || url, on a map kept as a function over the URLs assigned.
Local(map, url) ==
    IF url \in DOMAIN map /\ Truthy(map[url]) THEN map[url] ELSE url

\* String.prototype.indexOf: the first place t occurs in s (0: nowhere).
IndexOfSub(s, t) ==
    LET at(k) == k + Len(t) - 1 <= Len(s) /\ SubSeq(s, k, k + Len(t) - 1) = t
    IN IF \E k \in 1..Len(s) : at(k)
       THEN CHOOSE k \in 1..Len(s) : at(k) /\ \A m \in 1..(k-1) : ~at(m)
       ELSE 0

\* match.replace(url, local) with a string pattern: the first occurrence of
\* url in match is replaced, wherever in the token it lies.
ReplaceFirst(match, url, local) ==
    LET k == IndexOfSub(match, url)
    IN IF k = 0 THEN match
       ELSE SubSeq(match, 1, k - 1) \o local \o SubSeq(match, k + Len(url), Len(match))

\* article.body_markdown.replace(regex, (match, url) => ...)
RECURSIVE RewriteFrom(_, _, _)
RewriteFrom(s, p, map) ==
    LET m == NextMatch(s, p)
    IN IF m.from = 0
       THEN SubSeq(s, p, Len(s))
       ELSE SubSeq(s, p, m.from - 1)
            \o ReplaceFirst(TokenText(s, m), TokenUrl(s, m), Local(map, TokenUrl(s, m)))
            \o RewriteFrom(s, m.to + 1, map)

localMd(article, map) == RewriteFrom(article.body_markdown, 1, map)

\* '---', `title: ...`, ..., '---', ''  with .filter(Boolean).join('\n').
\* JSON.stringify of a string: the model's symbols need no escape, so the
\* value is wrapped in double quotes.  A record of the model carries path,
\* cover_image, social_image and body_markdown; title, published_at, tags and
\* canonical_url are absent from it.
stringify(s) == <<"\"">> \o s \o <<"\"">>

coverLine(article, map) ==
    IF Truthy(article.cover_image)
    THEN <<"cover_image: ">> \o stringify(Local(map, article.cover_image))
    ELSE Empty

socialLine(article, map) ==
    IF Truthy(article.social_image)
    THEN <<"social_image: ">> \o stringify(Local(map, article.social_image))
    ELSE Empty

RECURSIVE JoinLines(_)
JoinLines(lines) ==
    IF Len(lines) = 0 THEN Empty
    ELSE IF Len(lines) = 1 THEN lines[1]
    ELSE lines[1] \o <<"\n">> \o JoinLines(Tail(lines))

header(article, map) ==
    JoinLines(SelectSeq(
        << <<"---">>,
           <<"title: ">> \o stringify(Empty),
           coverLine(article, map),
           socialLine(article, map),
           IF article.path # "" THEN <<"path: ">> \o stringify(<<article.path>>) ELSE Empty,
           <<"---">>,
           Empty >>, Truthy))

(***************************************************************************)
(* Inputs: the records of articles.json.                                   *)
(***************************************************************************)
UA == <<"http://x/", "a">>
UB == <<"http://y/", "a">>
UM == <<"http://x/", "article.md">>
Malformed == <<"a">>
Urls == {UA, UB, UM}

Img(alt, url) == <<"!", "[">> \o alt \o <<"]", "(">> \o url \o <<")">>

Articles ==
    { [path |-> "p", cover_image |-> UA, social_image |-> UB,
       body_markdown |-> Img(<<"a">>, UA)],
      [path |-> "p", cover_image |-> Malformed, social_image |-> Empty,
       body_markdown |-> Img(UA, UA) \o <<"a">>],
      [path |-> "q", cover_image |-> Empty, social_image |-> UM,
       body_markdown |-> Empty],
      [path |-> "", cover_image |-> UA, social_image |-> Empty,
       body_markdown |-> Img(<<"a">>, UA)] }

\* articles.json: up to MaxArticles records, no record twice.
ArticleLists ==
    UNION { { l \in [1..n -> Articles] : \A a, b \in 1..n : a # b => l[a] # l[b] }
            : n \in 1..MaxArticles }

(***************************************************************************)
(* The file system under import.meta.dir.                                  *)
(***************************************************************************)
Dirs == {"p", "q"}
JsonName == <<"article.json">>
MdName == <<"article.md">>
FileNames == {Basename(u) : u \in Urls} \cup {JsonName, MdName}
Dests == Dirs \X FileNames
MediaDests == Dirs \X (FileNames \ {JsonName, MdName})

\* path.join(dir, filename)
join(dir, filename) == <<dir, filename>>

NoFile == [kind |-> "none"]
\* What createWriteStream's open leaves: the file created or truncated,
\* holding less than the response body.
Incomplete == [kind |-> "incomplete"]
\* The whole body of url, once 'finish' fired.
Body(url) == [kind |-> "media", from |-> url]
\* JSON.stringify(article, null, 2)
JsonOf(article) == [kind |-> "json", of |-> article]
\* header + localMd
MdOf(article, map) == [kind |-> "md", text |-> header(article, map) \o localMd(article, map)]

NoMap == [u \in {} |-> Empty]
NoDl == [url |-> Empty, dest |-> << >>, req |-> "none", file |-> "none", linked |-> FALSE]

(***************************************************************************)
(* State.                                                                  *)
(***************************************************************************)
VARIABLES
    hasCreateWriteStream, \* whether the object bound to `fs` has createWriteStream
    articles,      \* the parsed articles.json
    run,           \* which run of the script over the same directory this is
    pc,            \* "loop", "urls", "await", "done", "crashed", "hung"
    cause,         \* what ended the process when pc is "crashed" or "hung"
    i,             \* index in articles of the for..of loop
    j,             \* index in imageUrls of the inner loop
    imageUrls,     \* imageUrls of the current article
    urlToLocal,    \* urlToLocal of the current article
    dirs,          \* the directories that exist
    files,         \* the content at each destination
    dl,            \* the download the script awaits
    asyncOps,      \* file operations issued and not yet run: the open of a
                   \* write stream closed early, the unlinks nobody awaits
    requests,      \* proto.get calls per URL, for the current article
    fetched,       \* URLs of the current article downloaded or found present
    outcome,       \* per destination, how the last download() to it ended
    log,           \* per article index, what this run did for it
    filesAtStart   \* files, as the current run found them

vars == <<hasCreateWriteStream, articles, run, pc, cause, i, j, imageUrls,
          urlToLocal, dirs, files, dl, asyncOps, requests, fetched,
          outcome, log, filesAtStart>>

input == <<hasCreateWriteStream, articles>>
position == <<pc, cause, i, j, imageUrls, urlToLocal>>
history == <<requests, fetched, outcome, log, filesAtStart>>

NoLog == [json |-> FALSE, md |-> FALSE, attempts |-> 0, failed |-> FALSE]

StartOfRun ==
    /\ pc = "loop" /\ cause = "none" /\ i = 1 /\ j = 1
    /\ imageUrls = << >> /\ urlToLocal = NoMap
    /\ dl = NoDl /\ asyncOps = {}
    /\ requests = [u \in Urls |-> 0] /\ fetched = {}
    /\ outcome = [d \in Dests |-> "none"]
    /\ log = [k \in 1..Len(articles) |-> NoLog]

\* The script starts on an output root with no article directory yet.
Init ==
    /\ hasCreateWriteStream \in BOOLEAN
    /\ articles \in ArticleLists
    /\ run = 1
    /\ dirs = {}
    /\ files = [d \in Dests |-> NoFile]
    /\ filesAtStart = files
    /\ StartOfRun

article == articles[i]
dir == article.path
url == imageUrls[j]
filename == Basename(url)
dest == join(dir, filename)

\* A probe that never finds the file.
accessNeverFinds(d) == FALSE

\* await fs.access(dest): resolves iff something is at dest.
access(d) == files[d] # NoFile

\* A renderer that does not look at body_markdown.
writesDocAlways(a) == TRUE

\* if (article.body_markdown): whether article.md is written for a record.
writesDoc(a) == Truthy(a.body_markdown)

Crash(why) ==
    /\ pc' = "crashed" /\ cause' = why
    /\ dl' = NoDl /\ asyncOps' = {}

(***************************************************************************)
(* The for..of loop over the articles.                                     *)
(***************************************************************************)
\* if (!article.path) continue;
SkipArticle ==
    /\ pc = "loop" /\ i <= Len(articles) /\ article.path = ""
    /\ i' = i + 1
    /\ UNCHANGED <<input, run, pc, cause, j, imageUrls, urlToLocal, dirs, files,
                   dl, asyncOps, history>>

\* await mkdirp(dir); await fs.writeFile(article.json);
\* const imageUrls = extractImageUrls(article); const urlToLocal = {};
BeginArticle ==
    /\ pc = "loop" /\ i <= Len(articles) /\ article.path # ""
    /\ dirs' = dirs \cup {dir}
    /\ files' = [files EXCEPT ![join(dir, JsonName)] = JsonOf(article)]
    /\ imageUrls' = extractImageUrls(article)
    /\ urlToLocal' = NoMap
    /\ j' = 1 /\ pc' = "urls"
    /\ requests' = [u \in Urls |-> 0]
    /\ fetched' = {}
    /\ log' = [log EXCEPT ![i].json = TRUE]
    /\ UNCHANGED <<input, run, cause, i, dl, asyncOps, outcome, filesAtStart>>

\* fs.mkdir rejects: nothing catches it, the rejection of the top-level
\* await ends the process.
MkdirFails ==
    /\ pc = "loop" /\ i <= Len(articles) /\ article.path # ""
    /\ Crash("mkdir")
    /\ UNCHANGED <<input, run, i, j, imageUrls, urlToLocal, dirs, files, history>>

\* fs.writeFile of article.json rejects, likewise uncaught.
WriteJsonFails ==
    /\ pc = "loop" /\ i <= Len(articles) /\ article.path # ""
    /\ dirs' = dirs \cup {dir}
    /\ Crash("writeJson")
    /\ UNCHANGED <<input, run, i, j, imageUrls, urlToLocal, files, history>>

\* The loop is over: the script has run to its end.
EndRun ==
    /\ pc = "loop" /\ i > Len(articles)
    /\ pc' = "done"
    /\ UNCHANGED <<input, run, cause, i, j, imageUrls, urlToLocal, dirs, files,
                   dl, asyncOps, history>>

(***************************************************************************)
(* The loop over imageUrls.                                                *)
(***************************************************************************)
\* One more URL of the article is dealt with, its fetch failed or not.
Attempt(failed) ==
    log' = [log EXCEPT ![i].attempts = @ + 1, ![i].failed = @ \/ failed]

\* catch (e) { console.warn(...) }: on to the next URL.
NextUrl == j' = j + 1 /\ pc' = "urls"

\* new URL(url) throws, before urlToLocal is touched.
UrlMalformed ==
    /\ pc = "urls" /\ j <= Len(imageUrls)
    /\ ~ValidUrl(url)
    /\ NextUrl /\ Attempt(TRUE)
    /\ UNCHANGED <<input, run, cause, i, imageUrls, urlToLocal, dirs, files, dl,
                   asyncOps, requests, fetched, outcome, filesAtStart>>

\* urlToLocal[url] = filename; await fs.access(dest) succeeds.
AlreadyDownloaded ==
    /\ pc = "urls" /\ j <= Len(imageUrls)
    /\ ValidUrl(url)
    /\ urlToLocal' = (url :> filename) @@ urlToLocal
    /\ access(dest)
    /\ fetched' = fetched \cup {url}
    /\ NextUrl /\ Attempt(FALSE)
    /\ UNCHANGED <<input, run, cause, i, imageUrls, dirs, files, dl, asyncOps,
                   requests, outcome, filesAtStart>>

\* urlToLocal[url] = filename; fs.access rejects; download(url, dest) with an
\* `fs` that has no createWriteStream: the executor throws at its second
\* line, the promise rejects, no file and no request were made.
DownloadThrows ==
    /\ pc = "urls" /\ j <= Len(imageUrls)
    /\ ValidUrl(url)
    /\ urlToLocal' = (url :> filename) @@ urlToLocal
    /\ ~access(dest)
    /\ ~hasCreateWriteStream
    /\ outcome' = [outcome EXCEPT ![dest] = "failed"]
    /\ NextUrl /\ Attempt(TRUE)
    /\ UNCHANGED <<input, run, cause, i, imageUrls, dirs, files, dl, asyncOps,
                   requests, fetched, filesAtStart>>

\* urlToLocal[url] = filename; fs.access rejects; download(url, dest):
\* the write stream is created (its open is still to run), the request is
\* sent, and the script awaits the promise.
DownloadStart ==
    /\ pc = "urls" /\ j <= Len(imageUrls)
    /\ ValidUrl(url)
    /\ urlToLocal' = (url :> filename) @@ urlToLocal
    /\ ~access(dest)
    /\ hasCreateWriteStream
    /\ requests' = [requests EXCEPT ![url] = @ + 1]
    /\ dl' = [url |-> url, dest |-> dest, req |-> "sent", file |-> "opening",
              linked |-> FALSE]
    /\ pc' = "await"
    /\ UNCHANGED <<input, run, cause, i, j, imageUrls, dirs, files, asyncOps,
                   fetched, outcome, log, filesAtStart>>

(***************************************************************************)
(* download(url, dest): what can happen while the script awaits it.        *)
(***************************************************************************)
Op(kind, d) == [op |-> kind, dest |-> d]

\* file.close(); fs.unlink(dest).catch(() => {});  The close of a stream
\* whose open has not run waits for that open; the unlink is queued now and
\* awaited by nobody.
closeAndUnlink ==
    asyncOps' = asyncOps \cup {Op("unlink", dl.dest)}
                \cup (IF dl.file = "opening" THEN {Op("open", dl.dest)} ELSE {})

\* A rejection nothing catches: it ends the process.
RejectedUncaught ==
    /\ outcome' = [outcome EXCEPT ![dl.dest] = "failed"]
    /\ dl' = NoDl
    /\ pc' = "crashed" /\ j' = j /\ log' = log

\* reject(...): the await throws into the catch of the URL loop.
Rejected ==
    /\ outcome' = [outcome EXCEPT ![dl.dest] = "failed"]
    /\ dl' = NoDl
    /\ NextUrl /\ Attempt(TRUE)

\* The open issued by fs.createWriteStream runs: flag 'w' creates the file,
\* or truncates the one there.
OpenCompletes ==
    /\ pc = "await" /\ dl.file = "opening"
    /\ files' = [files EXCEPT ![dl.dest] = Incomplete]
    /\ dl' = [dl EXCEPT !.file = "open", !.linked = TRUE]
    /\ UNCHANGED <<input, run, position, dirs, asyncOps, history>>

\* The response callback with response.statusCode !== 200.
ResponseNot200 ==
    /\ pc = "await" /\ dl.req = "sent"
    /\ closeAndUnlink
    /\ Rejected
    /\ UNCHANGED <<input, run, cause, i, imageUrls, urlToLocal, dirs, files,
                   requests, fetched, filesAtStart>>

\* The response callback with status 200: response.pipe(file), and the
\* 'finish' listener.
Response200 ==
    /\ pc = "await" /\ dl.req = "sent"
    /\ dl' = [dl EXCEPT !.req = "streaming"]
    /\ UNCHANGED <<input, run, position, dirs, files, asyncOps, history>>

\* The response ended and the stream wrote it all: 'finish', then
\* file.close(resolve).  The bytes went to the file the stream opened, which
\* is the one at dest unless dest was unlinked since.
Finish ==
    /\ pc = "await" /\ dl.req = "streaming" /\ dl.file = "open"
    /\ files' = IF dl.linked THEN [files EXCEPT ![dl.dest] = Body(dl.url)] ELSE files
    /\ outcome' = [outcome EXCEPT ![dl.dest] = "ok"]
    /\ fetched' = fetched \cup {dl.url}
    /\ dl' = NoDl
    /\ NextUrl /\ Attempt(FALSE)
    /\ UNCHANGED <<input, run, cause, i, imageUrls, urlToLocal, dirs, asyncOps,
                   requests, filesAtStart>>

\* 'error' on the request, before a response or while it streams.
RequestError ==
    /\ pc = "await" /\ dl.req \in {"sent", "streaming"}
    /\ closeAndUnlink
    /\ Rejected
    /\ UNCHANGED <<input, run, cause, i, imageUrls, urlToLocal, dirs, files,
                   requests, fetched, filesAtStart>>

\* The connection closes in the middle of a 200 body without a socket
\* error: the response is destroyed, nothing listens for that, `file` is
\* never ended, 'finish' never fires and the promise never settles.  With
\* nothing left to wait for, the process exits inside the top-level await.
ResponseAborted ==
    /\ pc = "await" /\ dl.req = "streaming"
    /\ asyncOps' = asyncOps \cup (IF dl.file = "opening" THEN {Op("open", dl.dest)} ELSE {})
    /\ dl' = NoDl
    /\ pc' = "hung" /\ cause' = "unsettled"
    /\ UNCHANGED <<input, run, i, j, imageUrls, urlToLocal, dirs, files, history>>

\* The open or a write of the stream fails: `file` emits 'error', which has
\* no listener, so the error is thrown as an uncaught exception.
WriteStreamError ==
    /\ pc = "await"
    /\ dl.file = "opening" \/ dl.req = "streaming"
    /\ Crash("writeStream")
    /\ UNCHANGED <<input, run, i, j, imageUrls, urlToLocal, dirs, files, history>>

(***************************************************************************)
(* What earlier downloads left running.                                    *)
(***************************************************************************)
Running == pc \in {"loop", "urls", "await", "done", "hung"}

\* The open of a stream that was closed before it opened.
StaleOpen(d) ==
    /\ Running /\ Op("open", d) \in asyncOps
    /\ asyncOps' = asyncOps \ {Op("open", d)}
    /\ files' = [files EXCEPT ![d] = Incomplete]
    /\ UNCHANGED <<input, run, position, dirs, dl, history>>

\* fs.unlink(dest) runs; a failure (no such file) is swallowed by the catch.
Unlink(d) ==
    /\ Running /\ Op("unlink", d) \in asyncOps
    /\ asyncOps' = asyncOps \ {Op("unlink", d)}
    /\ files' = [files EXCEPT ![d] = NoFile]
    /\ dl' = IF dl.dest = d THEN [dl EXCEPT !.linked = FALSE] ELSE dl
    /\ UNCHANGED <<input, run, position, dirs, history>>

(***************************************************************************)
(* After the URL loop: article.md.                                         *)
(***************************************************************************)
AtRender == pc = "urls" /\ j > Len(imageUrls)

\* The end of the loop body: imageUrls and urlToLocal, consts of the body,
\* go out of scope, and what was recorded about this article's URLs with them.
NextArticle ==
    /\ i' = i + 1 /\ pc' = "loop" /\ j' = 1
    /\ imageUrls' = << >> /\ urlToLocal' = NoMap
    /\ requests' = [u \in Urls |-> 0] /\ fetched' = {}

\* if (article.body_markdown) { ...; await fs.writeFile(article.md, header + localMd) }
RenderDoc ==
    /\ AtRender /\ writesDoc(article)
    /\ files' = [files EXCEPT ![join(dir, MdName)] = MdOf(article, urlToLocal)]
    /\ log' = [log EXCEPT ![i].md = TRUE]
    /\ NextArticle
    /\ UNCHANGED <<input, run, cause, dirs, dl, asyncOps, outcome, filesAtStart>>

\* fs.writeFile of article.md rejects, uncaught.
WriteMdFails ==
    /\ AtRender /\ writesDoc(article)
    /\ Crash("writeMd")
    /\ UNCHANGED <<input, run, i, j, imageUrls, urlToLocal, dirs, files, history>>

\* No body_markdown: no document, on to the next article.
NoDoc ==
    /\ AtRender /\ ~writesDoc(article)
    /\ NextArticle
    /\ UNCHANGED <<input, run, cause, dirs, files, dl, asyncOps, outcome, log,
                   filesAtStart>>

(***************************************************************************)
(* The script is run again on the same articles.json and directory.        *)
(***************************************************************************)
\* A process that ends by itself has run its file operations; one killed by
\* an uncaught error dropped those still queued (Crash).
Exited == pc \in {"done", "crashed", "hung"} /\ asyncOps = {}

RunAgain ==
    /\ Exited /\ run < MaxRuns
    /\ run' = run + 1
    /\ filesAtStart' = files
    /\ pc' = "loop" /\ cause' = "none" /\ i' = 1 /\ j' = 1
    /\ imageUrls' = << >> /\ urlToLocal' = NoMap
    /\ dl' = NoDl /\ asyncOps' = {}
    /\ requests' = [u \in Urls |-> 0] /\ fetched' = {}
    /\ outcome' = [d \in Dests |-> "none"]
    /\ log' = [k \in 1..Len(articles) |-> NoLog]
    /\ UNCHANGED <<input, dirs, files>>

Next ==
    \/ SkipArticle \/ BeginArticle \/ MkdirFails \/ WriteJsonFails \/ EndRun
    \/ UrlMalformed \/ AlreadyDownloaded \/ DownloadThrows \/ DownloadStart
    \/ OpenCompletes \/ ResponseNot200 \/ Response200 \/ Finish
    \/ RequestError \/ ResponseAborted \/ WriteStreamError
    \/ \E d \in MediaDests \cup (Dirs \X {MdName}) :
           StaleOpen(d) \/ Unlink(d)
    \/ RenderDoc \/ WriteMdFails \/ NoDoc
    \/ RunAgain

Spec == Init /\ [][Next]_vars

(***************************************************************************)
(* Properties.                                                             *)
(***************************************************************************)
HasPath(k) == articles[k].path # ""
UrlsOf(k) == extractImageUrls(articles[k])
Stopped == pc \in {"crashed", "hung"}
PendingOn(d) == dl.dest = d \/ \E o \in asyncOps : o.dest = d
SameName(u, v) == Basename(u) = Basename(v)

\* C1: when article.md is about to be rendered (on a runtime whose write
\* stream works), urlToLocal has an entry only for URLs that were downloaded
\* or found present, so the cover_image and social_image lines and the image
\* tokens of a URL that failed keep the URL itself.
C1_MapHoldsOnlyFetched ==
    hasCreateWriteStream /\ AtRender /\ writesDoc(article) =>
        /\ \A u \in DOMAIN urlToLocal : u \in fetched
        /\ Truthy(article.cover_image) /\ article.cover_image \notin fetched =>
               coverLine(article, urlToLocal)
                   = <<"cover_image: ">> \o stringify(article.cover_image)
        /\ Truthy(article.social_image) /\ article.social_image \notin fetched =>
               socialLine(article, urlToLocal)
                   = <<"social_image: ">> \o stringify(article.social_image)
        /\ \A u \in Urls \ fetched :
               localMd([article EXCEPT !.body_markdown = Img(Empty, u)], urlToLocal)
                   = Img(Empty, u)

C4_EachUrlRequestedOnce ==
    \A u \in Urls : requests[u] <= 1

\* C5: from the second run on, no download() is called for a destination
\* that existed when the run started and the media file there keeps its
\* content, while article.json of every article the loop has passed, and
\* article.md of those with a body, are written again.
C5_SecondRunKeepsMedia ==
    run >= 2 =>
        /\ \A d \in Dests :
               filesAtStart[d] # NoFile => outcome[d] = "none" /\ dl.dest # d
        /\ \A d \in MediaDests :
               filesAtStart[d] # NoFile => files[d] = filesAtStart[d]
        /\ \A k \in 1..Len(articles) :
               k < i /\ HasPath(k) =>
                   log[k].json /\ (log[k].md <=> Truthy(articles[k].body_markdown))

\* C5 witness: a second run has ended in which a media file of the first
\* article was there from the start and its article.md was written again.
C5_Witness ==
    /\ run = 2 /\ pc = "done" /\ HasPath(1) /\ log[1].md
    /\ \E u \in Urls :
           /\ \E k \in 1..Len(UrlsOf(1)) : UrlsOf(1)[k] = u
           /\ filesAtStart[join(articles[1].path, Basename(u))] = Body(u)

\* C6: no file system error on one article keeps the articles after it from
\* being processed.
C6_ArticleErrorDoesNotHaltRun ==
    ~ /\ pc = "crashed" /\ cause \in {"mkdir", "writeJson", "writeMd"}
      /\ \E k \in (i+1)..Len(articles) : HasPath(k)

\* The text of s outside its image tokens, piece by piece.
Outside(s) ==
    LET toks == Tokens(s, 1)
    IN [k \in 1..(Len(toks) + 1) |->
           SubSeq(s,
                  IF k = 1 THEN 1 ELSE toks[k-1].to + 1,
                  IF k = Len(toks) + 1 THEN Len(s) ELSE toks[k].from - 1)]

\* C7: rewriting the body changes only the URL of each image token: the alt
\* texts and the text outside the tokens stay, and each URL becomes its local
\* file name when urlToLocal has it and stays otherwise.
C7_RewriteTouchesOnlyUrls ==
    AtRender /\ writesDoc(article) =>
        LET body == article.body_markdown
            out  == localMd(article, urlToLocal)
            tb   == Tokens(body, 1)
            to   == Tokens(out, 1)
        IN /\ Len(to) = Len(tb)
           /\ Outside(out) = Outside(body)
           /\ \A k \in 1..Len(tb) :
                  /\ TokenAlt(out, to[k]) = TokenAlt(body, tb[k])
                  /\ TokenUrl(out, to[k]) =
                         IF TokenUrl(body, tb[k]) \in DOMAIN urlToLocal
                         THEN urlToLocal[TokenUrl(body, tb[k])]
                         ELSE TokenUrl(body, tb[k])

====
